---- MODULE Spec2Model ----
(***************************************************************************)
(* Model of the proof-of-sql benchmark library: run_hyperkzg_bench         *)
(* (bench_runner.rs) and export_tables_to_parquet (parquet_export.rs).     *)
(*                                                                         *)
(* Strings that the code inspects character by character (query names,     *)
(* table names, path components) are sequences of one-character strings.   *)
(* Option<T> is a sequence of length 0 (None) or 1 (Some).                 *)
(***************************************************************************)
EXTENDS Integers, Sequences, FiniteSets, TLC

\* ------------------------------------------------------------------ bounds
MaxQueries == 2
MaxIter == 2
MaxTableSize == 2
MaxNameLen == 2

\* ------------------------------------------------------------------ Option
None == <<>>
Some(x) == <<x>>
IsSome(o) == Len(o) = 1
Unwrap(o) == o[1]

\* ------------------------------------------------------------------ text
Lower == {"a","b","c","d","e","f","g","h","i","j","k","l","m",
          "n","o","p","q","r","s","t","u","v","w","x","y","z"}
Upper == {"A","B","C","D","E","F","G","H","I","J","K","L","M",
          "N","O","P","Q","R","S","T","U","V","W","X","Y","Z"}
Digit == {"0","1","2","3","4","5","6","7","8","9"}

\* char::is_ascii_alphanumeric
is_ascii_alphanumeric(ch) == ch \in Lower \cup Upper \cup Digit

\* Mutant: only ASCII letters and digits are kept
sanitize_alphanumeric_only(input) ==
    LET out == [i \in 1..Len(input) |->
                   IF is_ascii_alphanumeric(input[i]) THEN input[i] ELSE "_"]
    IN IF out = <<>> THEN <<"t","a","b","l","e">> ELSE out

sanitize_component(input) ==
    LET out == [i \in 1..Len(input) |->
                   IF is_ascii_alphanumeric(input[i]) \/ input[i] = "_" \/ input[i] = "-"
                   THEN input[i] ELSE "_"]
    IN IF out = <<>> THEN <<"t","a","b","l","e">> ELSE out

\* TableRef::from_names(None, name): no schema, the table name as given
TableRef_from_names(schema, name) == [schema_name |-> schema, table_name |-> name]

\* Display for TableRef: "schema.table", or "table" when there is no schema
TableRef_to_string(table_ref) ==
    IF IsSome(table_ref.schema_name)
    THEN Unwrap(table_ref.schema_name) \o <<".">> \o table_ref.table_name
    ELSE table_ref.table_name

table_ref_filename(table_ref) ==
    sanitize_component(TableRef_to_string(table_ref)) \o <<".","p","a","r","q","u","e","t">>

\* Path::join: a path is the sequence of its components
PathJoin(path, component) == Append(path, component)

\* ------------------------------------------------------------------ numbers
\* usize::div_ceil
div_ceil(n, rhs) ==
    LET d == n \div rhs
        r == n % rhs
    IN IF r > 0 THEN d + 1 ELSE d

JoinName == <<"J","o","i","n">>
UnionAllName == <<"U","n","i","o","n"," ","A","l","l">>

\* Mutant: no query is size-adjusted
table_size_not_halved(table_size, query) == table_size

\* Mutant: the halved size rounded down
table_size_halved_down(table_size, query) ==
    IF query = JoinName \/ query = UnionAllName
    THEN table_size \div 2
    ELSE table_size

table_size_for_query(table_size, query) ==
    IF query = JoinName \/ query = UnionAllName
    THEN div_ceil(table_size, 2)
    ELSE table_size

\* ------------------------------------------------------------------ inputs
\* TableDefinition {name, columns}
TableA == [name |-> <<"a">>, columns |-> <<"x">>]
TableB == [name |-> <<"b">>, columns |-> <<"x","y">>]

RefA == TableRef_from_names(None, TableA.name)
RefB == TableRef_from_names(None, TableB.name)

\* SQL text, as the parser sees it: malformed, or a sequence of statements; a
\* statement is the set of table references it reads.
SqlMalformed == [well_formed |-> FALSE, statements |-> <<>>]
SqlOf(stmts) == [well_formed |-> TRUE, statements |-> stmts]

\* QueryEntry = (query, sql, tables, params)
QueryPool ==
    { [query |-> JoinName, sql |-> SqlOf(<<{RefA, RefB}>>),
       tables |-> <<TableA, TableB>>, params |-> <<>>],
      [query |-> UnionAllName, sql |-> SqlOf(<<{RefB}, {RefA, RefB}>>),
       tables |-> <<TableB>>, params |-> <<>>],
      [query |-> <<"U","n","i","o","n","_","A","l","l">>, sql |-> SqlOf(<<{RefB}>>),
       tables |-> <<TableB>>, params |-> <<>>],
      [query |-> <<"F","i","l","t","e","r">>, sql |-> SqlMalformed,
       tables |-> <<TableA>>, params |-> <<>>] }

QueryLists == UNION { [1..n -> QueryPool] : n \in 0..MaxQueries }

TableSizes == (1..MaxTableSize) \cup {1001}
SeedValues == {7}
EntropySeeds == {0, 1}
OutDir == <<"out">>

\* BenchOptions
BenchOptions ==
    [iterations : 0..MaxIter,
     table_size : TableSizes,
     rand_seed : {None} \cup {Some(s) : s \in SeedValues},
     parquet_dir : {None, Some(OutDir)}]

\* Trusted-setup files on disk. A Bn254G1Affine point is {x, y, infinity}; a
\* coordinate is its limbs, least significant first (two 16-bit limbs here for
\* the four 64-bit limbs of the code).
PointFinite == [x |-> <<513, 7>>, y |-> <<2, 1027>>, infinity |-> FALSE]
PointInfinity == [x |-> <<0, 0>>, y |-> <<1, 0>>, infinity |-> TRUE]

SetupFiles ==
    [p \in {"ok.bin", "malformed.bin"} |->
        IF p = "ok.bin"
        THEN [valid |-> TRUE, points |-> <<PointFinite, PointInfinity>>]
        ELSE [valid |-> FALSE, points |-> <<>>]]

PpotPaths == {None, Some("ok.bin"), Some("malformed.bin"), Some("missing.bin")}

\* ------------------------------------------------------------------ random source
\* StdRng: the seed it was built from and the number of values drawn so far
seed_from_u64(seed) == [seed |-> seed, pos |-> 0]

\* generate_random_columns: the generated columns are a function of the column
\* specs, the row count and the state of the random source; it advances the source.
generate_random_columns(rng_state, columns, rows) ==
    [data |-> [specs |-> columns, rows |-> rows,
               seed |-> rng_state.seed, pos |-> rng_state.pos],
     rng |-> [rng_state EXCEPT !.pos = @ + rows * Len(columns)]]

\* ------------------------------------------------------------------ accessor
\* BenchmarkAccessor::default()
EmptyAccessor == [r \in {} |-> <<>>]

\* BenchmarkAccessor::insert_table: stores the columns and their commitment
\* under the reference, overwriting any prior entry
insert_table(acc, table_ref, columns, setup) ==
    [r \in DOMAIN acc \cup {table_ref} |->
        IF r = table_ref
        THEN [columns |-> columns, commitment |-> [of |-> columns, key |-> setup.src]]
        ELSE acc[r]]

\* BenchmarkAccessor::table_columns
table_columns(acc, table_ref) ==
    IF table_ref \in DOMAIN acc THEN Some(acc[table_ref].columns) ELSE None

\* ------------------------------------------------------------------ setup
\* bytemuck::cast::<[u64; 4], [u8; 32]>: the limbs' bytes, little-endian
CastLimbs(limbs) ==
    [i \in 1..(2 * Len(limbs)) |->
        IF i % 2 = 1 THEN limbs[(i + 1) \div 2] % 256 ELSE limbs[i \div 2] \div 256]

\* Fq::from_raw_bytes_unchecked: the bytes taken as limbs, no reduction
from_raw_bytes_unchecked(bytes) ==
    [i \in 1..(Len(bytes) \div 2) |-> bytes[2 * i - 1] + 256 * bytes[2 * i]]

\* Halo2Bn256G1Affine::default()
Halo2Default == [x |-> <<0, 0>>, y |-> <<0, 0>>]

\* Mutant: the infinity flag is not looked at
convert_coordinates_only(point) ==
    [x |-> from_raw_bytes_unchecked(CastLimbs(point.x)),
     y |-> from_raw_bytes_unchecked(CastLimbs(point.y))]

convert_to_halo2_bn256_g1_affine(point) ==
    IF point.infinity
    THEN Halo2Default
    ELSE [x |-> from_raw_bytes_unchecked(CastLimbs(point.x)),
          y |-> from_raw_bytes_unchecked(CastLimbs(point.y))]

\* Mutant: a path whose file does not exist falls back to the generated setup
load_hyperkzg_setup_fallback(options, ppot_path) ==
    IF IsSome(ppot_path) /\ Unwrap(ppot_path) \in DOMAIN SetupFiles
    THEN IF ~SetupFiles[Unwrap(ppot_path)].valid
         THEN [ok |-> FALSE, err |-> "Setup"]
         ELSE LET prover_setup == SetupFiles[Unwrap(ppot_path)].points
                  ck == [ck |-> [i \in 1..Len(prover_setup) |->
                                    convert_to_halo2_bn256_g1_affine(prover_setup[i])],
                         h |-> Halo2Default, tau_H |-> "G2Affine::default"]
              IN [ok |-> TRUE,
                  prover_setup |-> [src |-> "file", len |-> Len(prover_setup),
                                    points |-> prover_setup],
                  vk |-> [G |-> ck.ck[1], H |-> ck.h, tau_H |-> ck.tau_H]]
    ELSE LET ck == [label |-> "bench", n |-> options.table_size]
         IN [ok |-> TRUE,
             prover_setup |-> [src |-> "generated", len |-> ck.n, points |-> <<>>],
             vk |-> [G |-> [x |-> <<1, 0>>, y |-> <<2, 0>>],
                     H |-> [x |-> <<1, 0>>, y |-> <<2, 0>>], tau_H |-> "tau*H"]]

\* load_hyperkzg_setup: Ok((prover_setup, vk)) or Err
load_hyperkzg_setup(options, ppot_path) ==
    IF IsSome(ppot_path)
    THEN IF Unwrap(ppot_path) \notin DOMAIN SetupFiles
         THEN [ok |-> FALSE, err |-> "Io"]
         ELSE IF ~SetupFiles[Unwrap(ppot_path)].valid
         THEN [ok |-> FALSE, err |-> "Setup"]
         ELSE LET prover_setup == SetupFiles[Unwrap(ppot_path)].points
                  ck == [ck |-> [i \in 1..Len(prover_setup) |->
                                    convert_to_halo2_bn256_g1_affine(prover_setup[i])],
                         h |-> Halo2Default, tau_H |-> "G2Affine::default"]
              IN [ok |-> TRUE,
                  prover_setup |-> [src |-> "file", len |-> Len(prover_setup),
                                    points |-> prover_setup],
                  vk |-> [G |-> ck.ck[1], H |-> ck.h, tau_H |-> ck.tau_H]]
    ELSE LET ck == [label |-> "bench", n |-> options.table_size]
         IN [ok |-> TRUE,
             prover_setup |-> [src |-> "generated", len |-> ck.n, points |-> <<>>],
             vk |-> [G |-> [x |-> <<1, 0>>, y |-> <<2, 0>>],
                     H |-> [x |-> <<1, 0>>, y |-> <<2, 0>>], tau_H |-> "tau*H"]]

\* ------------------------------------------------------------------ file system
\* A file is {complete, data}: File::create leaves an empty file at the path,
\* which is complete only once the writer has been closed.
PartialFile == [complete |-> FALSE, data |-> None]
CompleteFile(columns) == [complete |-> TRUE, data |-> Some(columns)]
EmptyFs == [p \in {} |-> PartialFile]

\* Where an I/O or encoding call of one export fails, if anywhere: at = 0 is
\* fs::create_dir_all, at = k the k-th table of the list.
ExportStages == {"record_batch", "create", "try_new", "write", "close"}
NoFault == [at |-> 0, stage |-> "none"]
ExportFaults ==
    {NoFault, [at |-> 0, stage |-> "create_dir_all"]}
    \cup [at : 1..2, stage : ExportStages]

\* Mutant: the existence check never finds the file
exists_never(fsys, file_path) == FALSE

\* Path::exists
exists(fsys, file_path) == file_path \in DOMAIN fsys

\* Mutant: a table the accessor does not hold is written as an empty batch
record_batch_or_empty(acc, table_ref, fault) ==
    LET columns == table_columns(acc, table_ref)
    IN IF fault.stage = "record_batch" THEN [ok |-> FALSE, err |-> "Arrow"]
       ELSE [ok |-> TRUE, batch |-> IF IsSome(columns) THEN Unwrap(columns) ELSE <<>>]

\* record_batch_for_table
record_batch_for_table(acc, table_ref, fault) ==
    LET columns == table_columns(acc, table_ref)
    IN IF ~IsSome(columns) THEN [ok |-> FALSE, err |-> "MissingTable"]
       ELSE IF fault.stage = "record_batch" THEN [ok |-> FALSE, err |-> "Arrow"]
       ELSE [ok |-> TRUE, batch |-> Unwrap(columns)]

\* The loop of export_tables_to_parquet from table i on. st is
\* {ok, err, fs, outputs, created, reused}.
RECURSIVE ExportLoop(_, _, _, _, _, _)
ExportLoop(acc, tables, query_dir, i, st, fault) ==
    IF i > Len(tables) THEN st
    ELSE
      LET table_ref == TableRef_from_names(None, tables[i].name)
          file_path == PathJoin(query_dir, table_ref_filename(table_ref))
          here == IF fault.at = i THEN fault ELSE NoFault
      IN IF exists(st.fs, file_path)
         THEN ExportLoop(acc, tables, query_dir, i + 1,
                  [st EXCEPT !.outputs = Append(@, file_path),
                             !.reused = Append(@, [path |-> file_path,
                                                   file |-> st.fs[file_path]])],
                  fault)
         ELSE
           LET batch == record_batch_for_table(acc, table_ref, here)
           IN IF ~batch.ok
              THEN [st EXCEPT !.ok = FALSE, !.err = batch.err]
              ELSE IF here.stage = "create"
              THEN [st EXCEPT !.ok = FALSE, !.err = "Io"]
              ELSE IF here.stage \in {"try_new", "write", "close"}
              THEN [st EXCEPT !.ok = FALSE, !.err = "Parquet",
                              !.fs = file_path :> PartialFile @@ @,
                              !.created = Append(@, file_path)]
              ELSE ExportLoop(acc, tables, query_dir, i + 1,
                       [st EXCEPT !.fs = file_path :> CompleteFile(batch.batch) @@ @,
                                  !.outputs = Append(@, file_path),
                                  !.created = Append(@, file_path)],
                       fault)

\* export_tables_to_parquet: {ok, err, fs, dirs, outputs, created, reused}
export_tables_to_parquet(acc, tables, output_dir, query_name, fsys, dirset, fault) ==
    LET query_dir == PathJoin(output_dir, sanitize_component(query_name))
        st0 == [ok |-> TRUE, err |-> "none", fs |-> fsys, outputs |-> <<>>,
                created |-> <<>>, reused |-> <<>>]
    IN IF query_dir \notin dirset /\ fault.stage = "create_dir_all"
       THEN [ok |-> FALSE, err |-> "Io", fs |-> fsys, dirs |-> dirset,
             outputs |-> <<>>, created |-> <<>>, reused |-> <<>>]
       ELSE LET st == ExportLoop(acc, tables, query_dir, 1, st0, fault)
            IN [ok |-> st.ok, err |-> st.err, fs |-> st.fs,
                dirs |-> dirset \cup {query_dir},
                outputs |-> IF st.ok THEN st.outputs ELSE <<>>,
                created |-> st.created, reused |-> st.reused]

\* Lines 92 and 98: the path of the file of a table
file_path_of(output_dir, query_name, table_ref) ==
    PathJoin(PathJoin(output_dir, sanitize_component(query_name)),
             table_ref_filename(table_ref))

\* ------------------------------------------------------------------ planner and proof scheme
\* sqlparser::parser::Parser::parse_sql
parse_sql(sql) ==
    IF sql.well_formed THEN [ok |-> TRUE, statements |-> sql.statements]
    ELSE [ok |-> FALSE, statements |-> <<>>]

\* sql_to_proof_plans: one plan per statement, resolved against the accessor
sql_to_proof_plans(statements, acc) ==
    IF \E i \in 1..Len(statements) : ~(statements[i] \subseteq DOMAIN acc)
    THEN [ok |-> FALSE, plans |-> <<>>]
    ELSE [ok |-> TRUE, plans |-> statements]

RECURSIVE SumOver(_, _)
SumOver(S, acc) ==
    IF S = {} THEN 0
    ELSE LET r == CHOOSE r \in S : TRUE
             c == acc[r].columns
         IN ((c.seed + c.pos) % (c.rows + 1)) + SumOver(S \ {r}, acc)

\* res.result.num_rows(): a function of the plan and of the columns it reads
num_rows(plan, acc) == SumOver(plan, acc)

\* The G2 element that pairs with the prover's points: tau*H for the secret tau
\* whose powers in G1 the points are (the generated key's own tau, or the tau of
\* the ceremony that made the file)
tau_H_of(prover_setup) ==
    IF prover_setup.src = "generated" THEN "tau*H" ELSE "ceremony tau*H"

\* VerifiableQueryResult::new: the result and a proof whose commitments and
\* openings are made with the prover's points
VerifiableQueryResult_new(plan, acc, prover_setup) ==
    [num_query_results |-> num_rows(plan, acc),
     proof |-> [plan |-> plan, tau_H |-> tau_H_of(prover_setup)]]

\* VerifiableQueryResult::verify: the pairing check of the openings against
\* vk.tau_H, which an honest proof passes iff vk.tau_H pairs with the points
\* the proof was made with
verify(r, vk) == vk.tau_H = r.proof.tau_H

\* ------------------------------------------------------------------ state
VARIABLES
    queries,        \* input: &[QueryEntry]
    options,        \* input: &BenchOptions
    ppot_path,      \* input: Option<&Path>
    fs,             \* files on disk under the output directory
    dirs,           \* directories on disk
    run,            \* number of the current call of run_hyperkzg_bench
    pc,             \* position of the call
    setup,          \* (prover_setup, vk)
    results,        \* Vec<BenchResult>
    resultPos,      \* history: (entry, plan) position of each result
    parquet_paths,  \* Vec<PathBuf>
    accessor,       \* BenchmarkAccessor
    rng_state,      \* StdRng
    qi,             \* index of the current query entry
    plans,          \* plans of the current entry
    pi,             \* index of the current plan
    it,             \* i of the iteration loop
    res,            \* the VerifiableQueryResult being verified
    ret,            \* the value returned by the call
    failed,         \* history: the phase that failed in this call
    genLog,         \* history: generate_random_columns calls of this call
    exportLog,      \* history: export_tables_to_parquet calls, all calls
    prev,           \* history: inputs' previous call, its genLog and ret
    arg,            \* argument of a function of the library called by itself
    out,            \* Option: what that function returned
    work,           \* history: the calls made so far by this call, per phase
    timer,          \* Instant of the latest `let timer = Instant::now()`
    generate_proof_elapsed  \* timer.elapsed() after VerifiableQueryResult::new

vars == <<queries, options, ppot_path, fs, dirs, run, pc, setup, results, resultPos,
          parquet_paths, accessor, rng_state, qi, plans, pi, it, res, ret, failed,
          genLog, exportLog, prev, arg, out, work, timer, generate_proof_elapsed>>

inputs == <<queries, options, ppot_path>>
pure == <<arg, out>>

\* Time is counted in calls: an instant is the calls made before it, a duration
\* the calls made within it
Phases == {"setup", "insert", "export", "plan", "generate", "verify"}
NoWork == [ph \in Phases |-> 0]
Called(w, ph, n) == [w EXCEPT ![ph] = @ + n]

\* Instant::now()
Instant_now(w) == w

\* Mutant: the time since the call began
elapsed_since_start(t, w) == w

\* Instant::elapsed
elapsed(t, w) == [ph \in Phases |-> w[ph] - t[ph]]
disk == <<fs, dirs, exportLog>>

NoSetup == [prover_setup |-> [src |-> "none", len |-> 0, points |-> <<>>],
            vk |-> [G |-> Halo2Default, H |-> Halo2Default, tau_H |-> "none"]]
NoRng == [seed |-> 0, pos |-> 0]
NoRes == [num_query_results |-> 0, proof |-> [plan |-> {}, tau_H |-> "none"]]
NoRet == [tag |-> "none"]
NoPrev == [genLog |-> <<>>, ret |-> NoRet]
NoArg == [fn |-> "none"]

\* Result<BenchRunOutput, BenchRunError>
Ok(rs, paths) == [tag |-> "Ok", results |-> rs, parquet_paths |-> paths]
Err(e) == [tag |-> "Err", err |-> e]

\* Nothing has been called yet: an empty output directory, no locals
Locals ==
    /\ fs = EmptyFs
    /\ dirs = {}
    /\ run = 1
    /\ pc = "call"
    /\ setup = NoSetup
    /\ results = <<>>
    /\ resultPos = <<>>
    /\ parquet_paths = <<>>
    /\ accessor = EmptyAccessor
    /\ rng_state = NoRng
    /\ qi = 0
    /\ plans = <<>>
    /\ pi = 0
    /\ it = 0
    /\ res = NoRes
    /\ ret = NoRet
    /\ failed = "none"
    /\ genLog = <<>>
    /\ exportLog = <<>>
    /\ prev = NoPrev
    /\ work = NoWork
    /\ timer = NoWork
    /\ generate_proof_elapsed = NoWork

Init ==
    /\ queries \in QueryLists
    /\ options \in BenchOptions
    /\ ppot_path \in PpotPaths
    /\ arg = NoArg
    /\ out = None
    /\ Locals

\* Mutant: the failing call returns what it has accumulated
FailKeepsOutput(phase, e) ==
    /\ pc' = "done"
    /\ ret' = Ok(results, parquet_paths)
    /\ failed' = phase

\* Mutant: every error is returned as an I/O error
FailAsIo(phase, e) ==
    /\ pc' = "done"
    /\ ret' = Err("Io")
    /\ failed' = phase

\* `?` on an Err: the call returns the error
Fail(phase, e) ==
    /\ pc' = "done"
    /\ ret' = Err(e)
    /\ failed' = phase

\* Mutant: the seed of the options is ignored
rng_from_entropy(opts) == {seed_from_u64(e) : e \in EntropySeeds}

\* fn rng: the state of the new random source(s)
rng(opts) ==
    IF IsSome(opts.rand_seed)
    THEN {seed_from_u64(Unwrap(opts.rand_seed))}
    ELSE {seed_from_u64(e) : e \in EntropySeeds}

\* Lines 145-155: the setup, then the empty collections and the random source
LoadSetup ==
    /\ pc = "call"
    /\ LET s == load_hyperkzg_setup(options, ppot_path)
       IN IF ~s.ok
          THEN /\ Fail("setup", s.err)
               /\ UNCHANGED <<setup, results, resultPos, parquet_paths, accessor,
                              rng_state, qi>>
          ELSE /\ setup' = [prover_setup |-> s.prover_setup, vk |-> s.vk]
               /\ results' = <<>>
               /\ resultPos' = <<>>
               /\ parquet_paths' = <<>>
               /\ accessor' = EmptyAccessor
               /\ rng_state' \in rng(options)
               /\ qi' = 1
               /\ pc' = "build"
               /\ UNCHANGED <<ret, failed>>
    /\ work' = Called(work, "setup", 1)
    /\ UNCHANGED <<inputs, pure, disk, run, plans, pi, it, res, genLog, prev, timer,
                   generate_proof_elapsed>>

\* Mutant: the accessor is emptied at the start of every query entry
RECURSIVE BuildLoopFresh(_, _, _, _, _)
BuildLoopFresh(entry, i, acc, r, log) ==
    IF i > Len(entry.tables) THEN [accessor |-> acc, rng |-> r, log |-> log]
    ELSE
      LET table == entry.tables[i]
          table_ref == TableRef_from_names(None, table.name)
          rows == table_size_for_query(options.table_size, entry.query)
          g == generate_random_columns(r, table.columns, rows)
      IN BuildLoopFresh(entry, i + 1,
                   insert_table(IF i = 1 THEN EmptyAccessor ELSE acc,
                                table_ref, g.data, setup.prover_setup),
                   g.rng,
                   Append(log, [entry |-> qi, query |-> entry.query, table |-> table_ref,
                                rows |-> rows, data |-> g.data]))

\* The `for table in tables` loop of lines 159-170 from table i on:
\* {accessor, rng, log}
RECURSIVE BuildLoop(_, _, _, _, _)
BuildLoop(entry, i, acc, r, log) ==
    IF i > Len(entry.tables) THEN [accessor |-> acc, rng |-> r, log |-> log]
    ELSE
      LET table == entry.tables[i]
          table_ref == TableRef_from_names(None, table.name)
          rows == table_size_for_query(options.table_size, entry.query)
          g == generate_random_columns(r, table.columns, rows)
      IN BuildLoop(entry, i + 1,
                   insert_table(acc, table_ref, g.data, setup.prover_setup),
                   g.rng,
                   Append(log, [entry |-> qi, query |-> entry.query, table |-> table_ref,
                                rows |-> rows, data |-> g.data]))

\* Build tables (lines 157-170)
BuildTables ==
    /\ pc = "build"
    /\ qi <= Len(queries)
    /\ LET b == BuildLoop(queries[qi], 1, accessor, rng_state, genLog)
       IN /\ accessor' = b.accessor
          /\ rng_state' = b.rng
          /\ genLog' = b.log
    /\ pc' = IF IsSome(options.parquet_dir) THEN "persist" ELSE "plan"
    /\ work' = Called(work, "insert", Len(queries[qi].tables))
    /\ UNCHANGED <<inputs, pure, disk, run, setup, results, resultPos, parquet_paths, qi,
                   plans, pi, it, res, ret, failed, prev, timer, generate_proof_elapsed>>

\* Mutant: a path that is in the vector already is not added again
extend_new(paths, outputs) ==
    paths \o SelectSeq(outputs, LAMBDA p : \A k \in 1..Len(paths) : paths[k] # p)

\* Vec::extend
extend(paths, outputs) == paths \o outputs

\* Lines 172-176
Persist ==
    /\ pc = "persist"
    /\ \E fault \in ExportFaults :
         LET query == queries[qi].query
             tables == queries[qi].tables
             parquet_dir == Unwrap(options.parquet_dir)
             outputs == export_tables_to_parquet(accessor, tables, parquet_dir, query,
                                                 fs, dirs, fault)
         IN /\ fs' = outputs.fs
            /\ dirs' = outputs.dirs
            /\ exportLog' = Append(exportLog,
                   [run |-> run, entry |-> qi, query_name |-> query, tables |-> tables,
                    output_dir |-> parquet_dir,
                    ok |-> outputs.ok, err |-> outputs.err,
                    outputs |-> outputs.outputs,
                    created |-> outputs.created, reused |-> outputs.reused,
                    held |-> [t \in 1..Len(tables) |->
                                 table_columns(accessor,
                                     TableRef_from_names(None, tables[t].name))]])
            /\ IF outputs.ok
               THEN /\ parquet_paths' = extend(parquet_paths, outputs.outputs)
                    /\ pc' = "plan"
                    /\ UNCHANGED <<ret, failed>>
               ELSE /\ Fail("persist", "Parquet")
                    /\ UNCHANGED parquet_paths
    /\ work' = Called(work, "export", 1)
    /\ UNCHANGED <<inputs, pure, run, setup, results, resultPos, accessor, rng_state, qi,
                   plans, pi, it, res, genLog, prev, timer, generate_proof_elapsed>>

\* The position after the plan loops are over for the entry, or the first
\* (plan, iteration) of a non-empty loop
EnterLoops(ps) ==
    IF Len(ps) > 0 /\ options.iterations > 0
    THEN /\ pc' = "generate"
         /\ UNCHANGED qi
    ELSE /\ pc' = "build"
         /\ qi' = qi + 1

\* Lines 178-182
Plan ==
    /\ pc = "plan"
    /\ LET statements == parse_sql(queries[qi].sql)
           planned == sql_to_proof_plans(statements.statements, accessor)
       IN IF ~statements.ok
          THEN /\ Fail("parse", "SqlParse")
               /\ UNCHANGED <<plans, pi, it, qi>>
          ELSE IF ~planned.ok
          THEN /\ Fail("planning", "Planning")
               /\ UNCHANGED <<plans, pi, it, qi>>
          ELSE /\ plans' = planned.plans
               /\ pi' = 1
               /\ it' = 0
               /\ EnterLoops(planned.plans)
               /\ UNCHANGED <<ret, failed>>
    /\ work' = Called(work, "plan", 1)
    /\ UNCHANGED <<inputs, pure, disk, run, setup, results, resultPos, parquet_paths,
                   accessor, rng_state, res, genLog, prev, timer, generate_proof_elapsed>>

\* Lines 186-196: VerifiableQueryResult::new, which the proof scheme may fail
GenerateProof ==
    /\ pc = "generate"
    /\ timer' = Instant_now(work)
    /\ work' = Called(work, "generate", 1)
    /\ \E proved \in BOOLEAN :
         IF proved
         THEN /\ res' = VerifiableQueryResult_new(plans[pi], accessor,
                                                  setup.prover_setup)
              /\ generate_proof_elapsed' = elapsed(timer', work')
              /\ pc' = "verify"
              /\ UNCHANGED <<ret, failed>>
         ELSE /\ Fail("proof", "Proof")
              /\ UNCHANGED <<res, generate_proof_elapsed>>
    /\ UNCHANGED <<inputs, pure, disk, run, setup, results, resultPos, parquet_paths,
                   accessor, rng_state, qi, plans, pi, it, genLog, prev>>

\* Mutant: the size recorded is the size the tables were generated with
BenchResultEffectiveSize(query, opts, i, r, generate_elapsed, verify_elapsed) ==
    [commitment_scheme |-> "HyperKZG",
     query |-> query,
     table_size |-> table_size_for_query(opts.table_size, query),
     generate_proof_ms |-> generate_elapsed,
     verify_proof_ms |-> verify_elapsed,
     iteration |-> i,
     num_query_results |-> r.num_query_results]

\* BenchResult
BenchResult(query, opts, i, r, generate_elapsed, verify_elapsed) ==
    [commitment_scheme |-> "HyperKZG",
     query |-> query,
     table_size |-> opts.table_size,
     generate_proof_ms |-> generate_elapsed,
     verify_proof_ms |-> verify_elapsed,
     iteration |-> i,
     num_query_results |-> r.num_query_results]

\* Mutant: the two loops nested the other way round
AdvanceIterationMajor(p, i, nplans, iterations) ==
    IF p < nplans THEN [pi |-> p + 1, it |-> i, more |-> TRUE]
    ELSE IF i + 1 < iterations THEN [pi |-> 1, it |-> i + 1, more |-> TRUE]
    ELSE [pi |-> p, it |-> i, more |-> FALSE]

\* Mutant: the iteration range closed at its upper end
AdvanceInclusive(p, i, nplans, iterations) ==
    IF i + 1 <= iterations THEN [pi |-> p, it |-> i + 1, more |-> TRUE]
    ELSE IF p < nplans THEN [pi |-> p + 1, it |-> 0, more |-> TRUE]
    ELSE [pi |-> p, it |-> i, more |-> FALSE]

\* The loops of lines 184-185 after the body has run for plan p, iteration i:
\* the next (plan, iteration), or more = FALSE when both loops are over
Advance(p, i, nplans, iterations) ==
    IF i + 1 < iterations THEN [pi |-> p, it |-> i + 1, more |-> TRUE]
    ELSE IF p < nplans THEN [pi |-> p + 1, it |-> 0, more |-> TRUE]
    ELSE [pi |-> p, it |-> i, more |-> FALSE]

\* Lines 198-212: res.verify, then results.push and the loops' next position
Verify ==
    /\ pc = "verify"
    /\ timer' = Instant_now(work)
    /\ work' = Called(work, "verify", 1)
    /\ LET verified == verify(res, setup.vk)
       IN
         IF verified
         THEN /\ results' = Append(results,
                                  BenchResult(queries[qi].query, options, it, res,
                                              generate_proof_elapsed,
                                              elapsed(timer', work')))
              /\ resultPos' = Append(resultPos, [entry |-> qi, plan |-> pi])
              /\ LET n == Advance(pi, it, Len(plans), options.iterations)
                 IN /\ pi' = n.pi
                    /\ it' = n.it
                    /\ IF n.more
                       THEN pc' = "generate" /\ UNCHANGED qi
                       ELSE pc' = "build" /\ qi' = qi + 1
              /\ UNCHANGED <<ret, failed>>
         ELSE /\ Fail("verify", "Verify")
              /\ UNCHANGED <<results, resultPos, pi, it, qi>>
    /\ UNCHANGED <<inputs, pure, disk, run, setup, parquet_paths, accessor, rng_state, plans,
                   res, genLog, prev, generate_proof_elapsed>>

\* Lines 216-219
Return ==
    /\ pc = "build"
    /\ qi > Len(queries)
    /\ ret' = Ok(results, parquet_paths)
    /\ pc' = "done"
    /\ UNCHANGED <<inputs, pure, disk, run, setup, results, resultPos, parquet_paths,
                   accessor, rng_state, qi, plans, pi, it, res, failed, genLog, prev,
                   work, timer, generate_proof_elapsed>>

\* The caller calls run_hyperkzg_bench again with the same arguments; the files
\* of the earlier call are still on disk.
CallAgain ==
    /\ pc = "done"
    /\ run = 1
    /\ run' = run + 1
    /\ prev' = [genLog |-> genLog, ret |-> ret]
    /\ pc' = "call"
    /\ setup' = NoSetup
    /\ results' = <<>>
    /\ resultPos' = <<>>
    /\ parquet_paths' = <<>>
    /\ accessor' = EmptyAccessor
    /\ rng_state' = NoRng
    /\ qi' = 0
    /\ plans' = <<>>
    /\ pi' = 0
    /\ it' = 0
    /\ res' = NoRes
    /\ ret' = NoRet
    /\ failed' = "none"
    /\ genLog' = <<>>
    /\ work' = NoWork
    /\ timer' = NoWork
    /\ generate_proof_elapsed' = NoWork
    /\ UNCHANGED <<inputs, pure, disk>>

\* One call of run_hyperkzg_bench
Next ==
    \/ LoadSetup
    \/ BuildTables
    \/ Persist
    \/ Plan
    \/ GenerateProof
    \/ Verify
    \/ Return

Spec == Init /\ [][Next]_vars

\* Two calls in a row with the same arguments, over the same output directory,
\* with the setup generated in memory, one table size, and no iteration or the
\* most
InitTwice ==
    /\ Init
    /\ ppot_path = None
    /\ options.table_size = MaxTableSize
    /\ options.iterations \in {0, MaxIter}

NextTwice ==
    \/ Next
    \/ CallAgain

SpecTwice == InitTwice /\ [][NextTwice]_vars

\* ------------------------------------------------------------------ functions by themselves
\* No run of the benchmark: the arguments of run_hyperkzg_bench are not used
NoRun ==
    /\ queries = <<>>
    /\ options = [iterations |-> 0, table_size |-> 1, rand_seed |-> None,
                  parquet_dir |-> None]
    /\ ppot_path = None
    /\ Locals

\* Limbs of a coordinate: zero, one, a value with both of its bytes set, the
\* largest
LimbValues == {0, 1, 513, 65535}
Coordinates == [1..2 -> LimbValues]

\* Bn254G1Affine {x, y, infinity}: any coordinates with either flag
Points == [x : Coordinates, y : Coordinates, infinity : BOOLEAN]

InitConvert ==
    /\ NoRun
    /\ arg \in [fn : {"convert_to_halo2_bn256_g1_affine"}, point : Points]
    /\ out = None

\* convert_to_halo2_bn256_g1_affine(point)
Convert ==
    /\ arg.fn = "convert_to_halo2_bn256_g1_affine"
    /\ out = None
    /\ out' = Some(convert_to_halo2_bn256_g1_affine(arg.point))
    /\ UNCHANGED <<inputs, arg, disk, run, pc, setup, results, resultPos,
                   parquet_paths, accessor, rng_state, qi, plans, pi, it, res, ret,
                   failed, genLog, prev, work, timer, generate_proof_elapsed>>

NextConvert == Convert

SpecConvert == InitConvert /\ [][NextConvert]_vars

\* export_tables_to_parquet is public: a caller with an accessor of its own
\* calls it over the output directory of a run, before the run or after it.
CallerColumns(table) == [specs |-> table.columns, rows |-> 1, seed |-> 99, pos |-> 0]
CallerAccessor(tables) ==
    [r \in {TableRef_from_names(None, t.name) : t \in tables} |->
        LET t == CHOOSE t \in tables : TableRef_from_names(None, t.name) = r
        IN [columns |-> CallerColumns(t),
            commitment |-> [of |-> CallerColumns(t), key |-> "generated"]]]
CallerAccessors == {CallerAccessor({}), CallerAccessor({TableA}),
                    CallerAccessor({TableA, TableB})}
CallerTables == {<<TableA>>, <<TableA, TableB>>}
CallerQueryNames == {JoinName, <<"F","i","l","t","e","r">>}
CallerFaults == {NoFault, [at |-> 1, stage |-> "write"]}

ExportArgs ==
    [fn : {"export_tables_to_parquet"}, accessor : CallerAccessors,
     tables : CallerTables, output_dir : {OutDir}, query_name : CallerQueryNames,
     fault : CallerFaults]

InitExport ==
    /\ InitTwice
    /\ IsSome(options.parquet_dir)
    /\ IsSome(options.rand_seed)

\* export_tables_to_parquet(accessor, tables, output_dir, query_name), called
\* once on the files that are on disk at the time
ExportCall ==
    /\ pc \in {"call", "done"}
    /\ arg = NoArg
    /\ \E a \in ExportArgs :
         LET outputs == export_tables_to_parquet(a.accessor, a.tables, a.output_dir,
                                                 a.query_name, fs, dirs, a.fault)
         IN /\ arg' = [a EXCEPT !.fn = a.fn] @@ [before |-> fs]
            /\ out' = Some([ok |-> outputs.ok, err |-> outputs.err,
                            outputs |-> outputs.outputs])
            /\ fs' = outputs.fs
            /\ dirs' = outputs.dirs
            /\ exportLog' = Append(exportLog,
                   [run |-> run, entry |-> 0, query_name |-> a.query_name,
                    tables |-> a.tables, output_dir |-> a.output_dir,
                    ok |-> outputs.ok, err |-> outputs.err,
                    outputs |-> outputs.outputs,
                    created |-> outputs.created, reused |-> outputs.reused,
                    held |-> [t \in 1..Len(a.tables) |->
                                 table_columns(a.accessor,
                                     TableRef_from_names(None, a.tables[t].name))]])
    /\ UNCHANGED <<inputs, run, pc, setup, results, resultPos, parquet_paths, accessor,
                   rng_state, qi, plans, pi, it, res, ret, failed, genLog, prev, work,
                   timer, generate_proof_elapsed>>

NextExport ==
    \/ Next
    \/ ExportCall

SpecExport == InitExport /\ [][NextExport]_vars

\* Characters of a name: ASCII letters and a digit, the two punctuation marks
\* the code keeps, some it does not, and a non-ASCII letter ("U+00E9")
NameChars == {"a", "Z", "7", "_", "-", " ", ".", "/", "U+00E9"}
Names == UNION { [1..n -> NameChars] : n \in 0..MaxNameLen }
TableNames == {<<>>, <<"a">>, <<"t", "-", "1">>, <<"s", ".", "t">>}

InitPath ==
    /\ NoRun
    /\ arg \in [fn : {"file_path"}, output_dir : {OutDir}, query_name : Names,
                 table_name : TableNames]
    /\ out = None

\* Lines 92 and 98 of export_tables_to_parquet: the path of a table's file
DerivePath ==
    /\ arg.fn = "file_path"
    /\ out = None
    /\ out' = Some(file_path_of(arg.output_dir, arg.query_name,
                                TableRef_from_names(None, arg.table_name)))
    /\ UNCHANGED <<inputs, arg, disk, run, pc, setup, results, resultPos,
                   parquet_paths, accessor, rng_state, qi, plans, pi, it, res, ret,
                   failed, genLog, prev, work, timer, generate_proof_elapsed>>

NextPath == DerivePath

SpecPath == InitPath /\ [][NextPath]_vars

\* ------------------------------------------------------------------ claims
Returned == pc = "done"
ReturnedOk == pc = "done" /\ ret.tag = "Ok"

\* C1: fail-fast, all-or-nothing. Once a phase has failed, for any query entry,
\* the call has returned, what it returned is the error value alone (no results,
\* no persisted paths, whatever had been accumulated), and nothing of a later
\* entry has been generated, persisted or recorded.
C1_FailFast ==
    failed # "none" =>
        /\ pc = "done"
        /\ ret.tag = "Err"
        /\ DOMAIN ret = {"tag", "err"}
        /\ \A k \in 1..Len(genLog) : genLog[k].entry <= qi
        /\ \A k \in 1..Len(resultPos) : resultPos[k].entry <= qi
        /\ \A k \in 1..Len(exportLog) :
               exportLog[k].run = run => exportLog[k].entry <= qi

\* a later entry fails after an earlier one has produced results and paths
C1_Witness ==
    /\ pc = "done"
    /\ failed \in {"persist", "parse", "planning", "proof", "verify"}
    /\ qi = 2
    /\ Len(results) > 0
    /\ Len(parquet_paths) > 0
    /\ ret = Err(ret.err)

Before(k, l) ==
    \/ resultPos[k].entry < resultPos[l].entry
    \/ /\ resultPos[k].entry = resultPos[l].entry
       /\ resultPos[k].plan < resultPos[l].plan
    \/ /\ resultPos[k].entry = resultPos[l].entry
       /\ resultPos[k].plan = resultPos[l].plan
       /\ results[k].iteration < results[l].iteration

OnePlanEach == \A e \in 1..Len(queries) : Len(queries[e].sql.statements) = 1

\* C2: result ordering. The results are in (query entry, plan, iteration)
\* order, each record under the name of its entry, and a successful call returns
\* them as accumulated; two entries A, B of one plan each with 2 iterations
\* give [A iter0, A iter1, B iter0, B iter1].
C2_ResultOrder ==
    /\ Len(resultPos) = Len(results)
    /\ \A k \in 1..Len(results) :
           results[k].query = queries[resultPos[k].entry].query
    /\ \A k, l \in 1..Len(results) : k < l => Before(k, l)
    /\ ReturnedOk =>
        /\ ret.results = results
        /\ (Len(queries) = 2 /\ OnePlanEach /\ options.iterations = 2) =>
               [k \in 1..Len(results) |-> <<results[k].query, results[k].iteration>>]
                   = << <<queries[1].query, 0>>, <<queries[1].query, 1>>,
                        <<queries[2].query, 0>>, <<queries[2].query, 1>> >>

\* a successful call over two entries, one of them with two plans, 2 iterations
C2_Witness ==
    /\ ReturnedOk
    /\ Len(queries) = 2
    /\ options.iterations = 2
    /\ Len(ret.results) = 6

RECURSIVE PlanCount(_)
PlanCount(e) ==
    IF e = 0 THEN 0 ELSE Len(queries[e].sql.statements) + PlanCount(e - 1)

\* C3: one result per (plan, iteration). A successful call returns as many
\* results as the entries have plans, times options.iterations, and for every
\* plan of every entry the iterations recorded are 0 .. iterations-1, each once.
C3_OnePerPlanIteration ==
    ReturnedOk =>
        /\ Len(ret.results) = PlanCount(Len(queries)) * options.iterations
        /\ \A e \in 1..Len(queries) :
           \A p \in 1..Len(queries[e].sql.statements) :
           \A i \in 0..(options.iterations - 1) :
               Cardinality({k \in 1..Len(ret.results) :
                               /\ resultPos[k] = [entry |-> e, plan |-> p]
                               /\ ret.results[k].iteration = i}) = 1
        /\ \A k \in 1..Len(ret.results) :
               ret.results[k].iteration \in 0..(options.iterations - 1)

\* a successful call with several plans and several iterations
C3_Witness ==
    /\ ReturnedOk
    /\ options.iterations = 2
    /\ PlanCount(Len(queries)) = 3
    /\ Len(ret.results) = 6

\* C4: a call that returns Ok for a query entry returns a non-empty results
\* sequence of at least options.iterations records.
C4_NonEmptyResults ==
    (ReturnedOk /\ Len(queries) >= 1) =>
        /\ Len(ret.results) > 0
        /\ Len(ret.results) >= options.iterations

\* C5: join-size halving. Every table of a query named "Join" or "Union All"
\* is generated with ceil(table_size / 2) rows (501 for 1001), every table of
\* any other query with table_size rows.
C5_JoinSizeHalving ==
    \A k \in 1..Len(genLog) :
        LET rows == genLog[k].rows
            name == genLog[k].query
        IN /\ genLog[k].data.rows = rows
           /\ IF name \in {JoinName, UnionAllName}
              THEN /\ 2 * rows >= options.table_size
                   /\ 2 * (rows - 1) < options.table_size
                   /\ options.table_size = 1001 => rows = 501
              ELSE rows = options.table_size

\* tables of a halved and of an unhalved query generated in one call, size 1001
C5_Witness ==
    /\ options.table_size = 1001
    /\ \E k \in 1..Len(genLog) : genLog[k].query = JoinName /\ genLog[k].rows = 501
    /\ \E k \in 1..Len(genLog) :
           genLog[k].query \notin {JoinName, UnionAllName} /\ genLog[k].rows = 1001

SameExport(a, b) ==
    /\ a.query_name = b.query_name
    /\ a.tables = b.tables
    /\ a.output_dir = b.output_dir

Range(seq) == {seq[k] : k \in 1..Len(seq)}

\* C6: idempotent persistence. Of two export calls with the same query name,
\* table list and output directory, the first of which succeeded, the second
\* creates no file, encodes nothing (every path is a reused one) and returns the
\* same paths; each path of the first call was written by it once or was on disk.
C6_IdempotentExport ==
    \A i, j \in 1..Len(exportLog) :
        (i < j /\ SameExport(exportLog[i], exportLog[j]) /\ exportLog[i].ok) =>
            /\ exportLog[j].ok
            /\ exportLog[j].created = <<>>
            /\ exportLog[j].outputs = exportLog[i].outputs
            /\ Range(exportLog[j].outputs) = {r.path : r \in Range(exportLog[j].reused)}
            /\ \A p \in Range(exportLog[i].outputs) :
                   Cardinality({k \in 1..Len(exportLog[i].created) :
                                   exportLog[i].created[k] = p}) <= 1

\* the same export twice, the first having written its files
C6_Witness ==
    \E i, j \in 1..Len(exportLog) :
        /\ i < j
        /\ SameExport(exportLog[i], exportLog[j])
        /\ exportLog[i].ok
        /\ Len(exportLog[i].created) = 2
        /\ exportLog[j].outputs = exportLog[i].created

\* C7: atomic persistence. A file found by the existence check and returned
\* without rewriting is a completely written file.
C7_NoPartialReuse ==
    \A k \in 1..Len(exportLog) :
        \A r \in Range(exportLog[k].reused) : r.file.complete

RefsOf(e) == {TableRef_from_names(None, queries[e].tables[t].name) :
                 t \in 1..Len(queries[e].tables)}

Built == IF pc = "build" THEN qi - 1 ELSE qi

LastInsert(table_ref) ==
    LET K == {k \in 1..Len(genLog) : genLog[k].table = table_ref}
    IN genLog[CHOOSE k \in K : \A l \in K : l <= k]

\* C8: shared accessor namespace. While a call runs, the accessor holds exactly
\* the table references of the entries built so far, none is ever dropped, and
\* each holds the columns of the most recent insertion under that reference:
\* a later entry's insertion overwrites, references it does not name keep theirs.
C8_SharedAccessor ==
    pc \in {"build", "persist", "plan", "generate", "verify"} =>
        /\ DOMAIN accessor = UNION {RefsOf(e) : e \in 1..Built}
        /\ DOMAIN accessor = {genLog[k].table : k \in 1..Len(genLog)}
        /\ \A table_ref \in DOMAIN accessor :
               accessor[table_ref].columns = LastInsert(table_ref).data

\* the second entry has overwritten one table of the first and kept the other
C8_Witness ==
    /\ pc = "plan"
    /\ qi = 2
    /\ DOMAIN accessor = {RefA, RefB}
    /\ LastInsert(RefA).entry = 1
    /\ LastInsert(RefB).entry = 2
    /\ accessor[RefB].columns # genLog[2].data
    /\ genLog[2].table = RefB

Min(a, b) == IF a < b THEN a ELSE b

\* C9: determinism. With rand_seed = Some(seed), a second call with the same
\* options and query entries generates the same data for every table of every
\* entry, and where both calls succeed their results agree in
\* num_query_results position by position.
C9_Determinism ==
    (run > 1 /\ IsSome(options.rand_seed)) =>
        /\ \A k \in 1..Min(Len(genLog), Len(prev.genLog)) : genLog[k] = prev.genLog[k]
        /\ (ReturnedOk /\ prev.ret.tag = "Ok") =>
              /\ genLog = prev.genLog
              /\ Len(ret.results) = Len(prev.ret.results)
              /\ \A k \in 1..Len(ret.results) :
                     ret.results[k].num_query_results
                         = prev.ret.results[k].num_query_results

\* two successful seeded calls that generated tables and produced results
C9_Witness ==
    /\ run > 1
    /\ IsSome(options.rand_seed)
    /\ ReturnedOk
    /\ prev.ret.tag = "Ok"
    /\ Len(genLog) >= 2
    /\ Len(ret.results) >= 2

PathSupplied == IsSome(ppot_path)
FileThere == PathSupplied /\ Unwrap(ppot_path) \in DOMAIN SetupFiles
SetupDone == pc # "call"
TookFile == setup.prover_setup.src = "file" \/ (failed = "setup" /\ ret = Err("Setup"))
TookGenerated ==
    /\ failed # "setup"
    /\ setup.prover_setup.src = "generated"
    /\ setup.prover_setup.len = options.table_size

\* C10 as stated: the trusted-setup file is used iff a path is supplied and the
\* file exists; otherwise (no path, or a path without a file) the setup is
\* generated in memory, sized to table_size.
C10_FallbackWhenMissing ==
    SetupDone => IF FileThere THEN TookFile ELSE TookGenerated

\* C10, amended: the trusted-setup file is used iff a path is supplied; a path
\* whose file does not exist makes the call fail with an Io error and no setup;
\* the setup is generated in memory, sized to table_size, iff no path is supplied.
C10_PathSelection ==
    SetupDone =>
        IF ~PathSupplied THEN TookGenerated
        ELSE IF FileThere THEN TookFile /\ ~TookGenerated
        ELSE /\ failed = "setup"
             /\ ret = Err("Io")
             /\ setup = NoSetup

\* a path is supplied, the file is not there, and the call has returned
C10_Witness ==
    /\ pc = "done"
    /\ PathSupplied
    /\ ~FileThere
    /\ ret = Err("Io")

LastExport == exportLog[Len(exportLog)]

\* C11: error tagging. A failed call returns exactly one error, whose tag is
\* that of the phase that failed: Setup for malformed setup data (Io for a setup
\* file that cannot be opened), Parquet for any failure of the persist step
\* (missing table, I/O, encoding), SqlParse, Planning, Proof, Verify; the phases
\* of the failing entry that come before the failing one have succeeded, and a
\* call returns an error only when a phase has failed.
C11_ErrorTagging ==
    /\ (pc = "done" /\ ret.tag = "Err") => failed # "none"
    /\ failed # "none" =>
        /\ ret = Err(ret.err)
        /\ ret.err \in {"Io", "Setup", "Parquet", "SqlParse", "Planning", "Proof", "Verify"}
        /\ failed = "setup" =>
               /\ PathSupplied
               /\ ret.err = IF FileThere THEN "Setup" ELSE "Io"
               /\ FileThere => ~SetupFiles[Unwrap(ppot_path)].valid
        /\ failed # "setup" => load_hyperkzg_setup(options, ppot_path).ok
        /\ failed = "persist" =>
               /\ ret.err = "Parquet"
               /\ ~LastExport.ok
               /\ LastExport.err \in {"MissingTable", "Io", "Arrow", "Parquet"}
               /\ LastExport.entry = qi /\ LastExport.run = run
        /\ (failed \in {"parse", "planning", "proof", "verify"}
                /\ IsSome(options.parquet_dir)) =>
               LastExport.ok /\ LastExport.entry = qi /\ LastExport.run = run
        /\ failed = "parse" =>
               ret.err = "SqlParse" /\ ~parse_sql(queries[qi].sql).ok
        /\ failed \in {"planning", "proof", "verify"} => parse_sql(queries[qi].sql).ok
        /\ failed = "planning" =>
               /\ ret.err = "Planning"
               /\ ~sql_to_proof_plans(queries[qi].sql.statements, accessor).ok
        /\ failed \in {"proof", "verify"} =>
               sql_to_proof_plans(queries[qi].sql.statements, accessor).ok
        /\ failed = "proof" => ret.err = "Proof"
        /\ failed = "verify" => ret.err = "Verify"

\* the persist step has failed on an I/O error of the export, returned as Parquet
C11_Witness ==
    /\ pc = "done"
    /\ failed = "persist"
    /\ LastExport.err = "Io"
    /\ ret = Err("Parquet")

Loaded == SetupDone /\ failed # "setup"

\* C12: setup pairing. For the setup of either loader path (file-loaded or
\* generated), the verifier key pairs with the prover's points, so that a proof
\* generated with the prover's points against a valid plan verifies: no call
\* fails in verification.
C12_SetupPairing ==
    /\ Loaded => setup.vk.tau_H = tau_H_of(setup.prover_setup)
    /\ pc = "verify" => verify(res, setup.vk)
    /\ failed # "verify"

Converted == arg.fn = "convert_to_halo2_bn256_g1_affine" /\ IsSome(out)

\* C13: curve conversion of infinity. convert_to_halo2_bn256_g1_affine maps a
\* point whose infinity flag is set to the target's default (identity) value
\* whatever its x and y are, and a point whose flag is not set to the point
\* whose coordinates are the source's, limb for limb (also when these are the
\* coordinates the identity has).
C13_InfinityConversion ==
    Converted =>
        IF arg.point.infinity
        THEN Unwrap(out) = Halo2Default
        ELSE /\ Unwrap(out).x = arg.point.x
             /\ Unwrap(out).y = arg.point.y

\* a point at infinity with non-zero coordinates has been converted
C13_Witness ==
    /\ Converted
    /\ arg.point.infinity
    /\ arg.point.x = <<513, 65535>>
    /\ arg.point.y = <<1, 0>>
    /\ Unwrap(out) = Halo2Default

Inserted(e) == Cardinality({k \in 1..Len(genLog) : genLog[k].entry = e})
ExportsOf(e) ==
    {k \in 1..Len(exportLog) : exportLog[k].run = run /\ exportLog[k].entry = e}
Only(phase) == [ph \in Phases |-> IF ph = phase THEN 1 ELSE 0]

\* C14: phase ordering per query entry. An entry is built, then persisted (only
\* if a directory is configured), then planned, then for each plan and iteration
\* a proof is generated and then verified: at persist and at planning all tables
\* of the entry are inserted and the entry is not planned yet, persist is reached
\* only with a directory and planning only after the entry's one successful
\* export (or none without a directory), proofs are generated only for a planned
\* entry, the proof being verified is the one just generated, and every
\* recorded time is that of a timer started after the entry's construction and
\* planning that covers one generation call, or one verification call, and
\* nothing else.
C14_PhaseOrder ==
    /\ pc \in {"persist", "plan", "generate", "verify"} =>
           /\ qi \in 1..Len(queries)
           /\ Inserted(qi) = Len(queries[qi].tables)
           /\ work["insert"] = Len(genLog)
           /\ \A e \in (qi + 1)..Len(queries) : Inserted(e) = 0
    /\ pc = "persist" =>
           /\ IsSome(options.parquet_dir)
           /\ ExportsOf(qi) = {}
           /\ work["plan"] = qi - 1
    /\ pc = "plan" =>
           /\ work["plan"] = qi - 1
           /\ work["generate"] = work["verify"]
           /\ IF IsSome(options.parquet_dir)
              THEN /\ Cardinality(ExportsOf(qi)) = 1
                   /\ LastExport.ok /\ LastExport.entry = qi /\ LastExport.run = run
              ELSE ExportsOf(qi) = {} /\ work["export"] = 0
    /\ pc \in {"generate", "verify"} =>
           /\ work["plan"] = qi
           /\ plans = sql_to_proof_plans(queries[qi].sql.statements, accessor).plans
           /\ pi \in 1..Len(plans)
           /\ it \in 0..(options.iterations - 1)
    /\ pc \in {"build", "generate"} => work["generate"] = work["verify"]
    /\ pc = "verify" =>
           /\ work["generate"] = work["verify"] + 1
           /\ res = VerifiableQueryResult_new(plans[pi], accessor, setup.prover_setup)
           /\ timer["plan"] = qi
           /\ timer["insert"] = Len(genLog)
           /\ generate_proof_elapsed = Only("generate")
    /\ Len(results) = work["verify"] - (IF failed = "verify" THEN 1 ELSE 0)
    /\ \A k \in 1..Len(results) :
           /\ results[k].generate_proof_ms = Only("generate")
           /\ results[k].verify_proof_ms = Only("verify")

\* with a directory configured, a second entry is being verified after the
\* first has gone through all its phases
C14_Witness ==
    /\ pc = "verify"
    /\ qi = 2
    /\ IsSome(options.parquet_dir)
    /\ Len(results) = 2
    /\ work = [setup |-> 1, insert |-> 3, export |-> 2, plan |-> 2,
               generate |-> 3, verify |-> 2]

Exported == arg.fn = "export_tables_to_parquet" /\ IsSome(out)
ArgRef(t) == TableRef_from_names(None, arg.tables[t].name)
Missing(t) == ~IsSome(table_columns(arg.accessor, ArgRef(t)))
There(t) == file_path_of(arg.output_dir, arg.query_name, ArgRef(t)) \in DOMAIN arg.before
InRun(k) == exportLog[k].entry >= 1

\* within run_hyperkzg_bench the accessor holds every table of the entry that
\* is exported, and no export fails with MissingTable
NoMissingTableInRun ==
    \A k \in 1..Len(exportLog) :
        InRun(k) =>
            /\ exportLog[k].err # "MissingTable"
            /\ \A t \in 1..Len(exportLog[k].held) : IsSome(exportLog[k].held[t])

\* C15 as stated: export_tables_to_parquet fails with MissingTable whenever the
\* accessor has no data for a table of the table list (no I/O or encoding call
\* failing); within run_hyperkzg_bench the error is unreachable.
C15_MissingTableWhenever ==
    /\ (Exported /\ arg.fault = NoFault /\ \E t \in 1..Len(arg.tables) : Missing(t)) =>
           ~Unwrap(out).ok /\ Unwrap(out).err = "MissingTable"
    /\ NoMissingTableInRun

\* C15, amended: export_tables_to_parquet fails with MissingTable exactly when
\* the accessor has no data for a table of the list whose file does not exist
\* yet (no I/O or encoding call failing before); a table whose file exists is
\* returned without the accessor being asked, so that the export succeeds also
\* for a table the accessor does not hold; within run_hyperkzg_bench the error
\* is unreachable.
C15_MissingTableUnlessFileExists ==
    /\ (Exported /\ arg.fault = NoFault) =>
           IF \E t \in 1..Len(arg.tables) : Missing(t) /\ ~There(t)
           THEN ~Unwrap(out).ok /\ Unwrap(out).err = "MissingTable"
           ELSE /\ Unwrap(out).ok
                /\ Len(Unwrap(out).outputs) = Len(arg.tables)
    /\ (Exported /\ Unwrap(out).err = "MissingTable") =>
           \E t \in 1..Len(arg.tables) : Missing(t) /\ ~There(t)
    /\ NoMissingTableInRun

\* after a run has persisted its tables, an export over the same directory with
\* an accessor that lacks one of the tables has succeeded; and the run's own
\* export had both tables
C15_Witness ==
    /\ Exported
    /\ arg.fault = NoFault
    /\ Len(arg.tables) = 2
    /\ ~Missing(1) /\ There(1)
    /\ Missing(2) /\ There(2)
    /\ Unwrap(out).ok
    /\ \E k \in 1..Len(exportLog) : InRun(k) /\ Len(exportLog[k].held) = 2

PathsOf(e) ==
    [t \in 1..Len(queries[e].tables) |->
        file_path_of(Unwrap(options.parquet_dir), queries[e].query,
                     TableRef_from_names(None, queries[e].tables[t].name))]

RECURSIVE PathsUpTo(_)
PathsUpTo(e) == IF e = 0 THEN <<>> ELSE PathsUpTo(e - 1) \o PathsOf(e)

Persisted == IF pc \in {"build", "persist"} THEN qi - 1 ELSE qi

\* C16: persistence is optional and purely additive. Without a parquet_dir no
\* file and no directory is created, nothing is exported and the returned
\* parquet_paths is empty; with one, the paths accumulated are one per (query
\* entry, table definition) pair, in query order then table order, and a
\* successful call returns them all, a path that an earlier entry or an earlier
\* call has produced appearing again.
C16_AdditivePersistence ==
    IF ~IsSome(options.parquet_dir)
    THEN /\ fs = EmptyFs
         /\ dirs = {}
         /\ exportLog = <<>>
         /\ parquet_paths = <<>>
         /\ ReturnedOk => ret.parquet_paths = <<>>
    ELSE /\ (pc \in {"build", "persist", "plan", "generate", "verify"}
                 \/ (pc = "done" /\ failed \notin {"setup", "persist"})) =>
                parquet_paths = PathsUpTo(IF qi > Len(queries) THEN Len(queries)
                                          ELSE Persisted)
         /\ ReturnedOk => ret.parquet_paths = PathsUpTo(Len(queries))

\* the second call has returned the one path of its two entries twice, the
\* file being the one that the first call wrote
C16_Witness ==
    /\ ReturnedOk
    /\ run = 2
    /\ Len(queries) = 2
    /\ Len(ret.parquet_paths) = 2
    /\ ret.parquet_paths[1] = ret.parquet_paths[2]
    /\ \A k \in 1..Len(exportLog) : exportLog[k].run = 2 => exportLog[k].created = <<>>

RECURSIVE RowsOf(_, _)
RowsOf(e, k) ==
    IF k = 0 THEN 0
    ELSE (IF genLog[k].entry = e THEN genLog[k].rows ELSE 0) + RowsOf(e, k - 1)

HalvedPair(e) ==
    /\ e <= Built
    /\ queries[e].query \in {JoinName, UnionAllName}
    /\ Len(queries[e].tables) = 2

\* C17 as stated: for a size-adjusted two-table query ("Join" / "Union All")
\* the generated row counts of its two tables add up to options.table_size.
C17_CombinedEqualsTableSize ==
    pc \in {"build", "persist", "plan", "generate", "verify", "done"} =>
        \A e \in 1..Len(queries) :
            HalvedPair(e) => RowsOf(e, Len(genLog)) = options.table_size

\* C17, amended: for a size-adjusted two-table query ("Join" / "Union All")
\* the generated row counts of its two tables add up to 2 * ceil(table_size / 2):
\* options.table_size when it is even, options.table_size + 1 when it is odd
\* (1002 rows for 1001).
C17_CombinedRoundedUp ==
    pc \in {"build", "persist", "plan", "generate", "verify", "done"} =>
        \A e \in 1..Len(queries) :
            HalvedPair(e) =>
                /\ RowsOf(e, Len(genLog)) = options.table_size + (options.table_size % 2)
                /\ options.table_size = 1001 => RowsOf(e, Len(genLog)) = 1002

\* the two tables of a "Join" entry have been generated for table_size 1001
C17_Witness ==
    /\ pc = "plan"
    /\ qi = 1
    /\ HalvedPair(1)
    /\ options.table_size = 1001
    /\ Len(genLog) = 2
    /\ RowsOf(1, 2) = 1002

Derived == arg.fn = "file_path" /\ IsSome(out)
Extension == <<".", "p", "a", "r", "q", "u", "e", "t">>

\* component is name with every character outside Keep replaced by "_"
Replaced(name, component, Keep) ==
    /\ Len(component) = Len(name)
    /\ \A i \in 1..Len(name) :
           component[i] = IF name[i] \in Keep THEN name[i] ELSE "_"

\* the path is <output_dir, query directory, file stem + ".parquet">, and
\* directory and stem are never empty
PathShape ==
    /\ Len(Unwrap(out)) = Len(arg.output_dir) + 2
    /\ SubSeq(Unwrap(out), 1, Len(arg.output_dir)) = arg.output_dir
    /\ Unwrap(out)[2] # <<>>
    /\ Len(Unwrap(out)[3]) > Len(Extension)
    /\ SubSeq(Unwrap(out)[3], Len(Unwrap(out)[3]) - Len(Extension) + 1,
              Len(Unwrap(out)[3])) = Extension

Stem == SubSeq(Unwrap(out)[3], 1, Len(Unwrap(out)[3]) - Len(Extension))

\* C18 as stated: the file path is a function of (output directory, query name,
\* table reference) in which every non-alphanumeric character of the query name
\* and of the table reference is replaced with "_" ("-", " " and "." alike), and
\* the result of sanitizing is never empty.
C18_NonAlphanumericReplaced ==
    Derived =>
        /\ PathShape
        /\ arg.query_name # <<>> =>
               Replaced(arg.query_name, Unwrap(out)[2], Lower \cup Upper \cup Digit)
        /\ arg.table_name # <<>> =>
               Replaced(arg.table_name, Stem, Lower \cup Upper \cup Digit)

\* C18, amended: the file path is a function of (output directory, query name,
\* table reference): output_dir / sanitized query name / sanitized table
\* reference + ".parquet", where sanitizing keeps ASCII letters, ASCII digits,
\* "_" and "-" and replaces every other character with "_" (" ", "." and "/",
\* and also a non-ASCII letter; "-" stays "-"), and gives "table" for an empty
\* string, so that it is never empty.
C18_PathDerivation ==
    Derived =>
        /\ PathShape
        /\ IF arg.query_name = <<>>
           THEN Unwrap(out)[2] = <<"t", "a", "b", "l", "e">>
           ELSE Replaced(arg.query_name, Unwrap(out)[2],
                         Lower \cup Upper \cup Digit \cup {"_", "-"})
        /\ IF arg.table_name = <<>>
           THEN Stem = <<"t", "a", "b", "l", "e">>
           ELSE Replaced(arg.table_name, Stem,
                         Lower \cup Upper \cup Digit \cup {"_", "-"})

\* the path of table "t-1" of a query named "-." has been derived
C18_Witness ==
    /\ Derived
    /\ arg.query_name = <<"-", ".">>
    /\ arg.table_name = <<"t", "-", "1">>
    /\ Unwrap(out) = <<"out", <<"-", "_">>,
                       <<"t", "-", "1", ".", "p", "a", "r", "q", "u", "e", "t">> >>

\* C19: persisted data matches proved data. For every path that a successful
\* call returns in parquet_paths, the file at that path is completely written
\* and holds the columns that the accessor held for that table when the entry
\* was persisted, which are the ones its proofs were generated over.
C19_PersistedMatchesProved ==
    (ReturnedOk /\ options.iterations > 0) =>
        \A k \in 1..Len(exportLog) :
            (exportLog[k].run = run /\ InRun(k)) =>
                \A t \in 1..Len(exportLog[k].outputs) :
                    /\ exportLog[k].outputs[t] \in DOMAIN fs
                    /\ fs[exportLog[k].outputs[t]] = CompleteFile(Unwrap(exportLog[k].held[t]))

\* C20: setup and recorded size are constants of a call. The commitment setup
\* is constructed exactly once, before the accessor is created and before any
\* table is generated or any file written (a setup failure leaves accessor and
\* file system untouched); it stays what load_hyperkzg_setup returned, every
\* insert commits with its prover points, every proof is generated with them
\* and verified against its verifier key; and every BenchResult records
\* table_size = options.table_size (also for a size-halved entry) and
\* commitment_scheme = "HyperKZG".
C20_RunConstants ==
    /\ work["setup"] = IF pc = "call" THEN 0 ELSE 1
    /\ (pc = "call" \/ failed = "setup") =>
           /\ setup = NoSetup
           /\ accessor = EmptyAccessor
           /\ genLog = <<>>
           /\ fs = EmptyFs /\ dirs = {} /\ exportLog = <<>>
           /\ results = <<>>
           /\ \A ph \in Phases \ {"setup"} : work[ph] = 0
    /\ Loaded =>
           LET s == load_hyperkzg_setup(options, ppot_path)
           IN /\ s.ok
              /\ setup = [prover_setup |-> s.prover_setup, vk |-> s.vk]
              /\ \A table_ref \in DOMAIN accessor :
                     accessor[table_ref].commitment
                         = [of |-> accessor[table_ref].columns,
                            key |-> s.prover_setup.src]
              /\ pc = "verify" => res.proof.tau_H = tau_H_of(s.prover_setup)
              /\ Len(results) > 0 => verify(res, s.vk)
    /\ \A k \in 1..Len(results) :
           /\ results[k].table_size = options.table_size
           /\ results[k].commitment_scheme = "HyperKZG"

\* a call has recorded the requested size 1001 for a "Join" entry whose tables
\* were generated with 501 rows
C20_Witness ==
    /\ ReturnedOk
    /\ options.table_size = 1001
    /\ Len(ret.results) > 0
    /\ ret.results[1].query = JoinName
    /\ ret.results[1].table_size = 1001
    /\ genLog[1].rows = 501
    /\ work["setup"] = 1

====
